---- MODULE Spec2Model ----
(***************************************************************************)
(* Word-alignment corpus preparation and alignment-quality metrics.        *)
(*   metrics.py        compute_precision, compute_recall, compute_aer      *)
(*   preprocessing.py  extract_sentences, get_token_to_index,              *)
(*                     tokenize_sents                                      *)
(* Python lists are sequences, tuples are sequences, strings are sequences *)
(* of one-character strings, dicts are functions on a finite key set.      *)
(***************************************************************************)
EXTENDS Integers, Sequences, FiniteSets, TLC

VARIABLES reference, predicted, prec, rec, aer,
          sentence_pairs, freq_cutoff, vocabs,
          source_dict, target_dict, ans,
          file, loads, loaded

metricVars == <<reference, predicted, prec, rec, aer>>
vocabVars  == <<freq_cutoff, vocabs>>
tokVars    == <<source_dict, target_dict, ans>>
loadVars   == <<file, loads, loaded>>
vars == <<reference, predicted, prec, rec, aer, sentence_pairs, freq_cutoff,
          vocabs, source_dict, target_dict, ans, file, loads, loaded>>

(***************************************************************************)
(* Bounds                                                                  *)
(***************************************************************************)
\* sentences in the reference, and lists in predicted
MaxSents == 2
\* alignment pairs in all the sure, possible and predicted lists together
MaxEntries == 3
\* sentence pairs in a corpus, and tokens in all of them together
MaxSentPairs == 2
MaxTokens == 4

\* the (source_pos, target_pos) pairs that occur in the alignments
Pairs == {<<1, 1>>, <<2, 2>>}

\* the tokens and vocabulary indices that occur in the tokenizer's inputs
TokWords == {<<"a">>, <<"b">>}
TokIndices == {0, 1}

\* sentence records in the corpus file, and calls of extract_sentences
MaxRecords == 1
MaxLoads == 2
\* characters in a sentence text and in an alignment text of the file
MaxText == 3
MaxAlignText == 3

\* the tokens that occur in the corpus given to get_token_to_index
VocabWords == {<<"a">>, <<"a", "b">>, <<"b", "a">>}
\* the finite values of freq_cutoff
Cutoffs == {1, 2}

\* a call that has not returned anything yet
None == [kind |-> "none"]

(***************************************************************************)
(* Generic helpers                                                         *)
(***************************************************************************)
SeqsUpTo(S, n) == UNION {[1..k -> S] : k \in 0..n}

Min(a, b) == IF a <= b THEN a ELSE b

\* Python `x in lst`
In(x, lst) == \E i \in 1..Len(lst) : lst[i] = x

\* Python sum(list of ints)
RECURSIVE Sum(_)
Sum(s) == IF s = <<>> THEN 0 ELSE Head(s) + Sum(Tail(s))

\* the sequences of n naturals whose sum is at most m
RECURSIVE Comps(_, _)
Comps(n, m) ==
    IF n = 0 THEN {<<>>}
    ELSE UNION {{<<k>> \o c : c \in Comps(n - 1, m - k)} : k \in 0..m}

\* flat cut into consecutive lists of the lengths lens
RECURSIVE Cut(_, _)
Cut(flat, lens) ==
    IF lens = <<>> THEN <<>>
    ELSE <<SubSeq(flat, 1, Head(lens))>>
         \o Cut(SubSeq(flat, Head(lens) + 1, Len(flat)), Tail(lens))

\* the set of elements of a list
SetOf(lst) == {lst[i] : i \in 1..Len(lst)}

(***************************************************************************)
(* metrics.py                                                              *)
(***************************************************************************)
\* variant: the membership test of line 23 left out
RepairLoopNoTest(sure, possible) == possible \o sure

\* lines 22-24: the inner loop over sent.sure, appending to sent.possible
RECURSIVE RepairLoop(_, _)
RepairLoop(sure, possible) ==
    IF sure = <<>> THEN possible
    ELSE RepairLoop(Tail(sure),
                    IF In(Head(sure), possible) THEN possible
                    ELSE Append(possible, Head(sure)))

\* variant: only the sentences that have a predicted list are repaired
RepairPossibleZipped(ref) ==
    [i \in 1..Len(ref) |->
        [sure |-> ref[i].sure,
         possible |-> IF i <= Len(predicted)
                      THEN RepairLoop(ref[i].sure, ref[i].possible)
                      ELSE ref[i].possible]]

\* lines 21-24: every sentence of the reference, whatever predicted holds
RepairPossible(ref) ==
    [i \in 1..Len(ref) |->
        [sure |-> ref[i].sure,
         possible |-> RepairLoop(ref[i].sure, ref[i].possible)]]

\* len([pair for pair in pred_sent if pair in lst])
CountIn(pred_sent, lst) == Len(SelectSeq(pred_sent, LAMBDA pair : In(pair, lst)))

\* variant: the intersection counted as a set, duplicates collapsed
PrecisionOfAsSet(ref, pred) ==
    LET n == Min(Len(ref), Len(pred))
        A_intersect_P == Sum([i \in 1..n |->
                              Cardinality(SetOf(pred[i]) \cap SetOf(ref[i].possible))])
        A == Sum([i \in 1..Len(pred) |-> Len(pred[i])])
    IN [kind |-> "value", num |-> A_intersect_P, den |-> A]

\* lines 27-30, on the repaired reference
PrecisionOf(ref, pred) ==
    LET n == Min(Len(ref), Len(pred))
        A_intersect_P == Sum([i \in 1..n |-> CountIn(pred[i], ref[i].possible)])
        A == Sum([i \in 1..Len(pred) |-> Len(pred[i])])
    IN [kind |-> "value", num |-> A_intersect_P, den |-> A]

\* variant: the denominator summed over the zipped sentences only
RecallOfZippedDen(ref, pred) ==
    LET n == Min(Len(ref), Len(pred))
        A_intersect_S == Sum([i \in 1..n |-> CountIn(pred[i], ref[i].sure)])
        S == Sum([i \in 1..n |-> Len(ref[i].sure)])
    IN [kind |-> "value", num |-> A_intersect_S, den |-> S]

\* variant: the intersection taken with `possible` instead of `sure`
RecallOfPossible(ref, pred) ==
    LET n == Min(Len(ref), Len(pred))
        A_intersect_S == Sum([i \in 1..n |-> CountIn(pred[i], ref[i].possible)])
        S == Sum([i \in 1..Len(ref) |-> Len(ref[i].sure)])
    IN [kind |-> "value", num |-> A_intersect_S, den |-> S]

\* lines 47-50
RecallOf(ref, pred) ==
    LET n == Min(Len(ref), Len(pred))
        A_intersect_S == Sum([i \in 1..n |-> CountIn(pred[i], ref[i].sure)])
        S == Sum([i \in 1..Len(ref) |-> Len(ref[i].sure)])
    IN [kind |-> "value", num |-> A_intersect_S, den |-> S]

\* variant: fails as soon as one of the two denominators is zero
AerOfEitherZero(p, r) ==
    IF p.den = 0 \/ r.den = 0 THEN [kind |-> "ZeroDivisionError"]
    ELSE [kind |-> "value", num |-> p.num + r.num, den |-> p.den + r.den]

\* line 69: 1 - (A_intersect_P + A_intersect_S) / (A + S).  The quotient is
\* kept exact: the value record stands for 1 - num/den.
AerOf(p, r) ==
    IF p.den + r.den = 0 THEN [kind |-> "ZeroDivisionError"]
    ELSE [kind |-> "value", num |-> p.num + r.num, den |-> p.den + r.den]

compute_precision ==
    /\ reference' = RepairPossible(reference)
    /\ prec' = PrecisionOf(reference', predicted)
    /\ UNCHANGED <<predicted, rec, aer>>

compute_recall ==
    /\ rec' = RecallOf(reference, predicted)
    /\ UNCHANGED <<reference, predicted, prec, aer>>

compute_aer ==
    /\ reference' = RepairPossible(reference)
    /\ aer' = AerOf(PrecisionOf(reference', predicted),
                    RecallOf(reference', predicted))
    /\ UNCHANGED <<predicted, prec, rec>>

MetricsIdle ==
    /\ reference = <<>> /\ predicted = <<>>
    /\ prec = None /\ rec = None /\ aer = None

VocabIdle == freq_cutoff = None /\ vocabs = None
TokIdle == source_dict = <<>> /\ target_dict = <<>> /\ ans = None
LoadIdle == file = None /\ loads = 0 /\ loaded = None

InitMetrics ==
    /\ \E nr \in 0..MaxSents, np \in 0..MaxSents :
         \E lens \in Comps(2 * nr + np, MaxEntries) :
           \E flat \in [1..Sum(lens) -> Pairs] :
             LET lists == Cut(flat, lens) IN
               /\ reference = [i \in 1..nr |->
                                 [sure |-> lists[2 * i - 1], possible |-> lists[2 * i]]]
               /\ predicted = [i \in 1..np |-> lists[2 * nr + i]]
    /\ prec = None /\ rec = None /\ aer = None
    /\ sentence_pairs = <<>>
    /\ VocabIdle /\ TokIdle /\ LoadIdle

NextMetrics ==
    \/ compute_precision /\ UNCHANGED <<sentence_pairs, vocabVars, tokVars, loadVars>>
    \/ compute_recall /\ UNCHANGED <<sentence_pairs, vocabVars, tokVars, loadVars>>
    \/ compute_aer /\ UNCHANGED <<sentence_pairs, vocabVars, tokVars, loadVars>>

(***************************************************************************)
(* Properties of the metric engine                                         *)
(***************************************************************************)
\* compute_precision has run (directly or inside compute_aer)
Repaired == prec # None \/ aer # None

RECURSIVE SumTo(_, _)
SumTo(f, n) == IF n = 0 THEN 0 ELSE SumTo(f, n - 1) + f[n]

Zipped == Min(Len(reference), Len(predicted))

\* occurrences in predicted[i] whose pair belongs to the set S
Occurrences(i, S) == Cardinality({k \in 1..Len(predicted[i]) : predicted[i][k] \in S})

PrecisionNum == SumTo([i \in 1..Zipped |-> Occurrences(i, SetOf(reference[i].possible))], Zipped)
PrecisionDen == SumTo([i \in 1..Len(predicted) |-> Len(predicted[i])], Len(predicted))
RecallNum == SumTo([i \in 1..Zipped |-> Occurrences(i, SetOf(reference[i].sure))], Zipped)
RecallDen == SumTo([i \in 1..Len(reference) |-> Len(reference[i].sure)], Len(reference))

NoDuplicates(lst) == \A i, j \in 1..Len(lst) : lst[i] = lst[j] => i = j

\* C1: once compute_precision or compute_aer has returned, every pair of
\* `sure` is in `possible`, for every sentence of the reference, also those
\* beyond the end of predicted.
C1_SureSubsetPossible ==
    Repaired => \A i \in 1..Len(reference) :
                    SetOf(reference[i].sure) \subseteq SetOf(reference[i].possible)

\* a sentence without a predicted list, with a duplicated sure pair, repaired
C1_Witness ==
    /\ aer # None
    /\ \E i \in 1..Len(reference) :
          /\ i > Len(predicted)
          /\ Len(reference[i].sure) = 2
          /\ reference[i].sure[1] = reference[i].sure[2]
          /\ reference[i].possible = <<reference[i].sure[1]>>

\* C2: once the repair has run, a further call of any of the three metrics
\* leaves every `possible` list as it is, and a metric that has returned a
\* result returns the same result on every later call.
C2_Idempotent ==
    [][ /\ (Repaired => reference' = reference)
        /\ (prec # None => prec' = prec)
        /\ (rec # None => rec' = rec)
        /\ (aer # None => aer' = aer) ]_vars

\* all three metrics have returned and the repair has inserted a pair
C2_Witness ==
    /\ prec # None /\ rec # None /\ aer # None
    /\ \E i \in 1..Len(reference) :
          /\ Len(reference[i].possible) = 2
          /\ reference[i].possible[2] \in SetOf(reference[i].sure)
          /\ i <= Len(predicted) /\ predicted[i] # <<>>

\* C3: the precision numerator counts, over the zipped sentences, the
\* occurrences in predicted that belong to the repaired possible set, and the
\* denominator is the total length of all predicted lists.
C3_Precision ==
    prec # None => prec.num = PrecisionNum /\ prec.den = PrecisionDen

\* a predicted list that repeats a pair of `possible`, counted twice
C3_Witness ==
    /\ prec # None
    /\ prec.num = 2
    /\ \E i \in 1..Zipped :
          /\ Len(predicted[i]) = 2
          /\ predicted[i][1] = predicted[i][2]
          /\ predicted[i][1] \in SetOf(reference[i].possible)

\* C4: no step changes a `sure` list, and compute_recall returns the
\* occurrences of predicted in `sure` over the zipped sentences and the total
\* length of the `sure` lists, as counted on the reference before the step.
C4_Recall ==
    [][ /\ Len(reference') = Len(reference)
        /\ \A i \in 1..Len(reference) : reference'[i].sure = reference[i].sure
        /\ (rec' # None => rec'.num = RecallNum /\ rec'.den = RecallDen) ]_vars

\* recall returned after the repair; one sentence has no predicted list
C4_Witness ==
    /\ rec # None /\ rec.num >= 1 /\ rec.num < rec.den
    /\ prec # None
    /\ Len(reference) > Len(predicted)
    /\ \E i \in 1..Len(reference) : reference[i].possible # <<>>

AllEmpty ==
    /\ \A i \in 1..Len(predicted) : predicted[i] = <<>>
    /\ \A i \in 1..Len(reference) : reference[i].sure = <<>>

\* C5: compute_aer fails exactly when every predicted list and every sure
\* list is empty; otherwise it returns 1 - (pn + rn) / (pd + rd).
C5_AerFailure ==
    aer # None =>
        /\ (aer.kind = "ZeroDivisionError") <=> AllEmpty
        /\ (aer.kind = "ZeroDivisionError") <=> (PrecisionDen + RecallDen = 0)
        /\ aer.kind = "value" =>
              /\ aer.num = PrecisionNum + RecallNum
              /\ aer.den = PrecisionDen + RecallDen

\* the failure, on a corpus that has sentences on both sides
C5_Witness ==
    /\ aer.kind = "ZeroDivisionError"
    /\ Len(reference) >= 1 /\ Len(predicted) >= 1

\* C6 as stated: a defined AER lies in [0, 1], each numerator at most its
\* denominator.
C6_Claim ==
    /\ (aer.kind = "value" => 0 <= aer.num /\ aer.num <= aer.den)
    /\ (prec # None => prec.num <= prec.den)
    /\ (rec # None => rec.num <= rec.den)

\* C6 amended: a defined AER is at most 1 and the precision numerator is at
\* most its denominator; when no predicted list repeats a pair, the recall
\* numerator is at most its denominator and the AER is at least 0.
C6_Amended ==
    /\ (aer.kind = "value" => 0 <= aer.num)
    /\ (prec # None => 0 <= prec.num /\ prec.num <= prec.den)
    /\ (rec # None => 0 <= rec.num)
    /\ (\A i \in 1..Len(predicted) : NoDuplicates(predicted[i])) =>
          /\ (rec # None => rec.num <= rec.den)
          /\ (aer.kind = "value" => aer.num <= aer.den)

C6_Witness ==
    /\ aer.kind = "value" /\ rec # None /\ prec # None
    /\ \A i \in 1..Len(predicted) : NoDuplicates(predicted[i])
    /\ rec.num >= 1
    /\ aer.num < aer.den

Spec == InitMetrics /\ [][NextMetrics]_vars
(***************************************************************************)
(* preprocessing.py: tokenize_sents                                        *)
(***************************************************************************)
\* [dict[word] for word in words if word in dict]
RECURSIVE IndicesOf(_, _)
IndicesOf(words, dict) ==
    IF words = <<>> THEN <<>>
    ELSE IF Head(words) \in DOMAIN dict
         THEN <<dict[Head(words)]>> \o IndicesOf(Tail(words), dict)
         ELSE IndicesOf(Tail(words), dict)

\* variant: a pair is kept when either side is non-empty
RECURSIVE TokenizeLoopEither(_, _, _)
TokenizeLoopEither(pairs, sd, td) ==
    IF pairs = <<>> THEN <<>>
    ELSE LET new_src == IndicesOf(Head(pairs).source, sd)
             new_trg == IndicesOf(Head(pairs).target, td)
             rest == TokenizeLoopEither(Tail(pairs), sd, td)
         IN IF Len(new_src) > 0 \/ Len(new_trg) > 0
            THEN <<[source_tokens |-> new_src, target_tokens |-> new_trg]>> \o rest
            ELSE rest

\* lines 134-142: the loop over sentence_pairs, building ans
RECURSIVE TokenizeLoop(_, _, _)
TokenizeLoop(pairs, sd, td) ==
    IF pairs = <<>> THEN <<>>
    ELSE LET new_src == IndicesOf(Head(pairs).source, sd)
             new_trg == IndicesOf(Head(pairs).target, td)
             rest == TokenizeLoop(Tail(pairs), sd, td)
         IN IF Len(new_src) > 0 /\ Len(new_trg) > 0
            THEN <<[source_tokens |-> new_src, target_tokens |-> new_trg]>> \o rest
            ELSE rest

tokenize_sents ==
    /\ ans' = [kind |-> "value",
               list |-> TokenizeLoop(sentence_pairs, source_dict, target_dict)]
    /\ UNCHANGED <<sentence_pairs, source_dict, target_dict>>

\* the dicts token -> index over the words W with values in I
DictsOver(W, I) == UNION {[D -> I] : D \in SUBSET W}

\* sentence_pairs is a corpus of SentencePairs over the words W
CorpusOver(W) ==
    \E n \in 0..MaxSentPairs :
      \E lens \in Comps(2 * n, MaxTokens) :
        \E flat \in [1..Sum(lens) -> W] :
          LET lists == Cut(flat, lens) IN
            sentence_pairs = [i \in 1..n |->
                                [source |-> lists[2 * i - 1], target |-> lists[2 * i]]]

InitTok ==
    /\ CorpusOver(TokWords)
    /\ source_dict \in DictsOver(TokWords, TokIndices)
    /\ target_dict \in DictsOver(TokWords, TokIndices)
    /\ ans = None
    /\ MetricsIdle /\ VocabIdle /\ LoadIdle

NextTok == tokenize_sents /\ UNCHANGED <<metricVars, vocabVars, loadVars>>

SpecTok == InitTok /\ [][NextTok]_vars

\* positions of words whose token is a key of dict
InVocab(words, dict) == {k \in 1..Len(words) : words[k] \in DOMAIN dict}

\* the sentence pairs with a known token on both sides
Kept ==
    {i \in 1..Len(sentence_pairs) :
        /\ InVocab(sentence_pairs[i].source, source_dict) # {}
        /\ InVocab(sentence_pairs[i].target, target_dict) # {}}

\* how many elements of the set of positions S are at most k
RankIn(S, k) == Cardinality({j \in S : j <= k})

\* out lists the indices of the in-vocabulary tokens of words, in their order
IsProjection(out, words, dict) ==
    /\ Len(out) = Cardinality(InVocab(words, dict))
    /\ \A k \in InVocab(words, dict) :
          out[RankIn(InVocab(words, dict), k)] = dict[words[k]]

\* C10: the result holds, in input order, one entry for exactly the sentence
\* pairs with a known token on each side; each side lists the indices of its
\* known tokens in order; no side is empty; the result is no longer than the
\* input.
C10_Tokenize ==
    ans # None =>
        /\ Len(ans.list) = Cardinality(Kept)
        /\ Len(ans.list) <= Len(sentence_pairs)
        /\ \A i \in Kept :
              LET out == ans.list[RankIn(Kept, i)] IN
                /\ IsProjection(out.source_tokens, sentence_pairs[i].source, source_dict)
                /\ IsProjection(out.target_tokens, sentence_pairs[i].target, target_dict)
        /\ \A j \in 1..Len(ans.list) :
              ans.list[j].source_tokens # <<>> /\ ans.list[j].target_tokens # <<>>

\* the first pair is dropped, the second is kept with an unknown token removed
C10_Witness ==
    /\ ans # None
    /\ Len(sentence_pairs) = 2
    /\ Kept = {2}
    /\ Len(ans.list) = 1
    /\ Len(ans.list[1].source_tokens) < Len(sentence_pairs[2].source)
    /\ sentence_pairs[1].target # <<>>
(***************************************************************************)
(* preprocessing.py: get_token_to_index                                    *)
(* A Counter is the list of its [word, count] entries in insertion order.  *)
(***************************************************************************)
\* counter[word] += 1
CounterAdd(counter, word) ==
    IF \E i \in 1..Len(counter) : counter[i].word = word
    THEN [i \in 1..Len(counter) |->
             IF counter[i].word = word
             THEN [word |-> word, count |-> counter[i].count + 1]
             ELSE counter[i]]
    ELSE Append(counter, [word |-> word, count |-> 1])

RECURSIVE CountWords(_, _)
CountWords(counter, words) ==
    IF words = <<>> THEN counter
    ELSE CountWords(CounterAdd(counter, Head(words)), Tail(words))

\* lines 101-108: the counter of one language side
RECURSIVE CounterOf(_, _, _)
CounterOf(counter, pairs, side) ==
    IF pairs = <<>> THEN counter
    ELSE CounterOf(CountWords(counter, Head(pairs)[side]), Tail(pairs), side)

\* Counter.most_common(n): by decreasing count, equal counts in insertion
\* order; all entries when n is None.  Each entry is a tuple (word, count).
MostCommon(counter, n) ==
    LET before(i) == Cardinality({j \in 1..Len(counter) :
                         \/ counter[j].count > counter[i].count
                         \/ counter[j].count = counter[i].count /\ j < i})
        sorted == [r \in 1..Len(counter) |->
                     LET i == CHOOSE i \in 1..Len(counter) : before(i) = r - 1
                     IN <<counter[i].word, counter[i].count>>]
    IN IF n = None THEN sorted
       ELSE SubSeq(sorted, 1, Min(n.val, Len(sorted)))

\* {key: ind for ind, key in enumerate(keys)}: the last index of a key wins
DictOfKeys(keys) ==
    [k \in SetOf(keys) |->
        (CHOOSE i \in 1..Len(keys) :
            keys[i] = k /\ \A j \in 1..Len(keys) : keys[j] = k => j <= i) - 1]

\* lines 110-115.  Iterating a Counter yields its keys, so word[0] in the
\* first branch is the first character of a token; in the second branch
\* word is a (token, count) tuple and word[0] is the token.
VocabOf(counter, cutoff) ==
    IF cutoff # None
    THEN DictOfKeys([i \in 1..Len(counter) |-> <<counter[i].word[1]>>])
    ELSE LET mc == MostCommon(counter, cutoff)
         IN DictOfKeys([i \in 1..Len(mc) |-> mc[i][1]])

get_token_to_index ==
    /\ vocabs' = [kind |-> "value",
                  en_vocab |-> VocabOf(CounterOf(<<>>, sentence_pairs, "source"), freq_cutoff),
                  cz_vocab |-> VocabOf(CounterOf(<<>>, sentence_pairs, "target"), freq_cutoff)]
    /\ UNCHANGED <<sentence_pairs, freq_cutoff>>

InitVocab ==
    /\ CorpusOver(VocabWords)
    /\ freq_cutoff \in {None} \cup {[kind |-> "int", val |-> k] : k \in Cutoffs}
    /\ vocabs = None
    /\ MetricsIdle /\ TokIdle /\ LoadIdle

NextVocab == get_token_to_index /\ UNCHANGED <<metricVars, tokVars, loadVars>>

SpecVocab == InitVocab /\ [][NextVocab]_vars

\* the tokens of one language side, and how often each occurs
TokensOf(side) ==
    UNION {SetOf(sentence_pairs[i][side]) : i \in 1..Len(sentence_pairs)}

Frequency(w, side) ==
    SumTo([i \in 1..Len(sentence_pairs) |->
              Cardinality({k \in 1..Len(sentence_pairs[i][side]) :
                              sentence_pairs[i][side][k] = w})],
          Len(sentence_pairs))

\* voc maps the min(k, distinct) most frequent tokens of side onto 0..size-1
IsCutoffVocabulary(voc, side, k) ==
    LET size == Min(k, Cardinality(TokensOf(side))) IN
      /\ DOMAIN voc \subseteq TokensOf(side)
      /\ Cardinality(DOMAIN voc) = size
      /\ \A w \in DOMAIN voc : \A u \in TokensOf(side) \ DOMAIN voc :
            Frequency(w, side) >= Frequency(u, side)
      /\ {voc[w] : w \in DOMAIN voc} = 0..(size - 1)

\* C7 as stated: with a finite freq_cutoff k each vocabulary maps exactly the
\* min(k, distinct tokens) most frequent tokens of its side onto the indices
\* 0..size-1.
C7_Claim ==
    (vocabs # None /\ freq_cutoff # None) =>
        /\ IsCutoffVocabulary(vocabs.en_vocab, "source", freq_cutoff.val)
        /\ IsCutoffVocabulary(vocabs.cz_vocab, "target", freq_cutoff.val)
(***************************************************************************)
(* preprocessing.py: extract_sentences                                     *)
(* The file is the list of its sentence records; each record holds the raw *)
(* character data of its english, czech, sure and possible elements, as    *)
(* written in the file.                                                    *)
(***************************************************************************)
Fields == {"english", "czech", "sure", "possible"}

\* str.replace('&', '&amp;')
RECURSIVE ReplaceAmp(_)
ReplaceAmp(text) ==
    IF text = <<>> THEN <<>>
    ELSE (IF Head(text) = "&" THEN <<"&", "a", "m", "p", ";">> ELSE <<Head(text)>>)
         \o ReplaceAmp(Tail(text))

\* lines 51-57: the whole document is rewritten
EscapeFile(f) == [i \in 1..Len(f) |-> [fld \in Fields |-> ReplaceAmp(f[i][fld])]]

Failed(exc) == [kind |-> "error", exc |-> exc]

\* line 63, character data as the XML parser reads it: the entity
\* reference &amp; stands for one ampersand, any other ampersand of these
\* texts is not well-formed and makes ET.parse raise ParseError.
RECURSIVE WellFormed(_)
WellFormed(text) ==
    IF text = <<>> THEN TRUE
    ELSE IF Head(text) # "&" THEN WellFormed(Tail(text))
         ELSE /\ Len(text) >= 5
              /\ SubSeq(text, 1, 5) = <<"&", "a", "m", "p", ";">>
              /\ WellFormed(SubSeq(text, 6, Len(text)))

RECURSIVE Unescape(_)
Unescape(text) ==
    IF text = <<>> THEN <<>>
    ELSE IF Head(text) # "&" THEN <<Head(text)>> \o Unescape(Tail(text))
         ELSE <<"&">> \o Unescape(SubSeq(text, 6, Len(text)))

\* str.split(): the maximal runs of non-blank characters
RECURSIVE SplitBlank(_, _)
SplitBlank(text, word) ==
    IF text = <<>> THEN (IF word = <<>> THEN <<>> ELSE <<word>>)
    ELSE IF Head(text) = " "
         THEN (IF word = <<>> THEN <<>> ELSE <<word>>) \o SplitBlank(Tail(text), <<>>)
         ELSE SplitBlank(Tail(text), Append(word, Head(text)))

\* str.split('-'): the parts between the separators, empty parts included
RECURSIVE SplitDash(_, _)
SplitDash(text, part) ==
    IF text = <<>> THEN <<part>>
    ELSE IF Head(text) = "-"
         THEN <<part>> \o SplitDash(Tail(text), <<>>)
         ELSE SplitDash(Tail(text), Append(part, Head(text)))

DigitValue ==
    [c \in {"0", "1", "2", "3", "4", "5", "6", "7", "8", "9"} |->
        CASE c = "0" -> 0 [] c = "1" -> 1 [] c = "2" -> 2 [] c = "3" -> 3
          [] c = "4" -> 4 [] c = "5" -> 5 [] c = "6" -> 6 [] c = "7" -> 7
          [] c = "8" -> 8 [] c = "9" -> 9]

\* int(part) raises ValueError unless part is a non-empty run of digits
IsInt(part) == part # <<>> /\ \A k \in 1..Len(part) : part[k] \in DOMAIN DigitValue

RECURSIVE IntOf(_, _)
IntOf(part, acc) ==
    IF part = <<>> THEN acc
    ELSE IntOf(Tail(part), 10 * acc + DigitValue[Head(part)])

\* tuple(map(int, pair.split('-'))): the tuple, unless int raises ValueError
TupleRaises(pair) ==
    LET parts == SplitDash(pair, <<>>) IN \E k \in 1..Len(parts) : ~IsInt(parts[k])

TupleOf(pair) ==
    LET parts == SplitDash(pair, <<>>) IN [k \in 1..Len(parts) |-> IntOf(parts[k], 0)]

\* lines 72-79: an element without text gives the empty list
AlignmentsRaise(text) ==
    LET toks == SplitBlank(text, <<>>) IN \E k \in 1..Len(toks) : TupleRaises(toks[k])

AlignmentsOf(text) ==
    LET toks == SplitBlank(text, <<>>) IN [k \in 1..Len(toks) |-> TupleOf(toks[k])]

\* lines 66-82 for one record of the parsed tree: the SentencePair and the
\* LabeledAlignment, or the exception raised (.text of an empty element is
\* None, and None has no split)
RecordOf(r) ==
    IF r.english = <<>> \/ r.czech = <<>> THEN Failed("AttributeError")
    ELSE IF AlignmentsRaise(r.sure) \/ AlignmentsRaise(r.possible)
         THEN Failed("ValueError")
         ELSE [kind |-> "record",
               pair |-> [source |-> SplitBlank(r.english, <<>>),
                         target |-> SplitBlank(r.czech, <<>>)],
               alignment |-> [sure |-> AlignmentsOf(r.sure),
                              possible |-> AlignmentsOf(r.possible)]]

\* lines 60-84 on the rewritten file
ParseFile(f) ==
    IF \E i \in 1..Len(f) : \E fld \in Fields : ~WellFormed(f[i][fld])
    THEN Failed("ParseError")
    ELSE LET recs == [i \in 1..Len(f) |->
                         RecordOf([fld \in Fields |-> Unescape(f[i][fld])])]
         IN IF \E i \in 1..Len(f) : recs[i].kind = "error"
            THEN recs[CHOOSE i \in 1..Len(f) :
                        recs[i].kind = "error"
                        /\ \A j \in 1..Len(f) : recs[j].kind = "error" => i <= j]
            ELSE [kind |-> "value",
                  sentence_pairs |-> [i \in 1..Len(f) |-> recs[i].pair],
                  alignments |-> [i \in 1..Len(f) |-> recs[i].alignment]]

extract_sentences ==
    /\ loads < MaxLoads
    /\ file' = EscapeFile(file)
    /\ loaded' = ParseFile(file')
    /\ loads' = loads + 1

\* the texts of the corpus file before the first load
EnglishTexts == SeqsUpTo({"a", "&", " "}, MaxText) \cup {<<"&", "a", "m", "p", ";">>}
CzechTexts == {<<"c">>, <<"&">>}
SureTexts == SeqsUpTo({"1", "2", "-", "x", " "}, MaxAlignText)
                \cup {<<"1", "-", "2", "-", "1">>}
PossibleTexts == {<<>>, <<"1", "-", "1">>, <<"2">>}

InitLoad ==
    /\ file \in SeqsUpTo([english : EnglishTexts, czech : CzechTexts,
                          sure : SureTexts, possible : PossibleTexts], MaxRecords)
    /\ loads = 0
    /\ loaded = None
    /\ sentence_pairs = <<>>
    /\ MetricsIdle /\ VocabIdle /\ TokIdle

NextLoad ==
    extract_sentences /\ UNCHANGED <<sentence_pairs, metricVars, vocabVars, tokVars>>

SpecLoad == InitLoad /\ [][NextLoad]_vars

\* C8 as stated: once a load has returned the corpus, every further load
\* leaves the file as that load left it and returns the same sentence tokens
\* and alignments.
C8_Claim ==
    [][(loads >= 1 /\ loaded.kind = "value") => (file' = file /\ loaded' = loaded)]_vars

\* C9 as stated: every element of every sure and possible list that a
\* successful load returns is a pair of exactly two integers.
C9_Claim ==
    loaded.kind = "value" =>
        \A i \in 1..Len(loaded.alignments) :
            /\ \A k \in 1..Len(loaded.alignments[i].sure) :
                  Len(loaded.alignments[i].sure[k]) = 2
            /\ \A k \in 1..Len(loaded.alignments[i].possible) :
                  Len(loaded.alignments[i].possible[k]) = 2
====
